---------------------------- MODULE Spec2Model ----------------------------
(***************************************************************************)
(* Model of the recurring schedule engine of the bot                       *)
(* (src/src/services/scheduledMessageService.ts), of its pure functions    *)
(* parseInterval and shouldSendNow, and of the enrollment of users into a  *)
(* forum thread (src/src/bot/client.ts).  Spec is the engine, SpecFn the   *)
(* calls of the pure functions, SpecEnroll the enrollment handlers.        *)
(*                                                                         *)
(* Times are milliseconds since the epoch, as Date.getTime() returns them. *)
(* Strings that the code parses are sequences of one-character strings.    *)
(* Loop indices are the code's 0-based indices; scheduleConfig[i + 1] is   *)
(* this.scheduleConfig.schedules[i].                                       *)
(***************************************************************************)
EXTENDS Integers, Sequences, FiniteSets, Bags, TLC

(***************************************************************************)
(* Program constants                                                       *)
(***************************************************************************)
CHECK_INTERVAL_MS == 60 * 1000

(***************************************************************************)
(* Bounds of the model                                                     *)
(***************************************************************************)
\* the clock advances in steps of one check cadence
TimeStep == CHECK_INTERVAL_MS
\* number of clock steps explored
MaxSteps == 1
MaxTime == MaxSteps * TimeStep
\* number of checkAndSend invocations awaiting a platform call at once
MaxInFlight == 2

(***************************************************************************)
(* parseInt(match[1], 10) on a string of decimal digits                    *)
(***************************************************************************)
Digits == {"0", "1", "2", "3", "4", "5", "6", "7", "8", "9"}

DigitVal(c) ==
    CASE c = "0" -> 0 [] c = "1" -> 1 [] c = "2" -> 2 [] c = "3" -> 3
      [] c = "4" -> 4 [] c = "5" -> 5 [] c = "6" -> 6 [] c = "7" -> 7
      [] c = "8" -> 8 [] c = "9" -> 9

RECURSIVE parseInt(_)
parseInt(ds) ==
    IF ds = <<>> THEN 0
    ELSE parseInt(SubSeq(ds, 1, Len(ds) - 1)) * 10 + DigitVal(ds[Len(ds)])

\* str.match(/^(\d+)([mhd])$/)
IntervalMatch(str) ==
    /\ Len(str) >= 2
    /\ str[Len(str)] \in {"m", "h", "d"}
    /\ \A k \in 1..(Len(str) - 1) : str[k] \in Digits

\* parseInterval: ok = FALSE stands for the thrown Error
parseInterval(str) ==
    IF ~IntervalMatch(str) THEN [ok |-> FALSE, value |-> 0]
    ELSE LET value == parseInt(SubSeq(str, 1, Len(str) - 1))
             unit == str[Len(str)]
         IN  CASE unit = "m" -> [ok |-> TRUE, value |-> value * 60 * 1000]
               [] unit = "h" -> [ok |-> TRUE, value |-> value * 60 * 60 * 1000]
               [] unit = "d" -> [ok |-> TRUE, value |-> value * 24 * 60 * 60 * 1000]

(***************************************************************************)
(* shouldSendNow.  lastSent is <<>> for null and <<ms>> for a Date.        *)
(* elapsed % 0 is NaN in the code and NaN < CHECK_INTERVAL_MS is false.    *)
(***************************************************************************)
\* variant: the window includes its end, elapsed % intervalMs <= CHECK_INTERVAL_MS
shouldSendNow_inclusiveWindow(startMs, intervalMs, nowMs, lastSent) ==
    IF nowMs < startMs THEN FALSE
    ELSE LET elapsed == nowMs - startMs
             withinWindow ==
                 IF intervalMs = 0 THEN FALSE
                 ELSE (elapsed % intervalMs) <= CHECK_INTERVAL_MS
         IN  IF ~withinWindow THEN FALSE
             ELSE IF lastSent # <<>> /\ 2 * (nowMs - lastSent[1]) < intervalMs
                  THEN FALSE
                  ELSE TRUE

\* variant: the check of the last dispatch is left out
shouldSendNow_noLastSentCheck(startMs, intervalMs, nowMs, lastSent) ==
    IF nowMs < startMs THEN FALSE
    ELSE LET elapsed == nowMs - startMs
         IN  IF intervalMs = 0 THEN FALSE
             ELSE (elapsed % intervalMs) < CHECK_INTERVAL_MS

\* variant: a dispatch up to a whole interval ago counts as the same occurrence
shouldSendNow_wholeInterval(startMs, intervalMs, nowMs, lastSent) ==
    IF nowMs < startMs THEN FALSE
    ELSE LET elapsed == nowMs - startMs
             withinWindow ==
                 IF intervalMs = 0 THEN FALSE
                 ELSE (elapsed % intervalMs) < CHECK_INTERVAL_MS
         IN  IF ~withinWindow THEN FALSE
             ELSE IF lastSent # <<>> /\ nowMs - lastSent[1] <= intervalMs
                  THEN FALSE
                  ELSE TRUE

shouldSendNow(startMs, intervalMs, nowMs, lastSent) ==
    IF nowMs < startMs THEN FALSE
    ELSE LET elapsed == nowMs - startMs
             withinWindow ==
                 IF intervalMs = 0 THEN FALSE
                 ELSE (elapsed % intervalMs) < CHECK_INTERVAL_MS
         IN  IF ~withinWindow THEN FALSE
             \* timeSinceLastSent < intervalMs / 2, without the division
             ELSE IF lastSent # <<>> /\ 2 * (nowMs - lastSent[1]) < intervalMs
                  THEN FALSE
                  ELSE TRUE


(***************************************************************************)
(* Schedule entries, and the registries that loadScheduleConfig returns    *)
(* for the config files considered: the entries of the file, in order.  A  *)
(* missing file, a file without a list under "schedules" and an empty list *)
(* all load as the empty registry.                                         *)
(***************************************************************************)
EHour == [channel_id |-> "111", start |-> 0, interval |-> <<"1", "h">>,
          message |-> "Test message"]

EMinute == [channel_id |-> "222", start |-> 0, interval |-> <<"1", "m">>,
            message |-> "every minute"]

ELater == [channel_id |-> "333", start |-> CHECK_INTERVAL_MS, interval |-> <<"2", "m">>,
           message |-> "every two minutes"]

EBad == [channel_id |-> "444", start |-> 0, interval |-> <<"1", "0", "x">>,
         message |-> "bad interval"]

Registries ==
    { <<>>, <<EHour>>, <<EMinute, ELater>>, <<EBad, ELater>> }

NoEntry == [channel_id |-> "", start |-> 0, interval |-> <<>>, message |-> ""]

(***************************************************************************)
(* State                                                                   *)
(***************************************************************************)
VARIABLES
    clock,          \* what new Date().getTime() returns
    client,         \* this.client # null
    intervalId,     \* this.intervalId: 0 for null, else the id of a timer
    scheduleConfig, \* this.scheduleConfig.schedules
    lastSentMap,    \* this.lastSentMap: index -> time
    timers,         \* the runtime's armed repeating timers: [id, due]
    ticks,          \* bag of the checkAndSend invocations suspended at an await
    rejected,       \* a checkAndSend promise was rejected
    loadedAt,       \* history: the time of the last initialize
    sent,           \* history: the [idx, occ] of the loaded registry that send
                    \* was invoked for
    unresolved,     \* history: index -> the last evaluation by a tick of the
                    \* loaded registry whose channel could not be resolved
    call,           \* a call of one of the exported pure functions: its arguments
    returned,       \* what the call returned: <<>> until it has
    parentId,       \* thread.parentId of the forum thread considered
    messages,       \* the posts of the thread, oldest first: messages[id] is
                    \* the post with identifier id; via is history, the
                    \* code that sent the post
    guild,          \* the number of members of the guild that are not bots
    runs            \* the invocations of the thread-created and member-joined
                    \* handlers

\* the state of the schedule engine, of a call of a pure function, of the
\* enrollment handlers
engineVars == <<clock, client, intervalId, scheduleConfig, lastSentMap, timers, ticks,
                rejected, loadedAt, sent, unresolved>>

functionVars == <<call, returned>>

enrollVars == <<parentId, messages, guild, runs>>

vars == <<engineVars, functionVars, enrollVars>>

\* no pure function is being called
NoCall == call = <<>> /\ returned = <<>>

\* no forum thread is being watched
NoThread == parentId = "" /\ messages = <<>> /\ guild = 0 /\ runs = <<>>

EmptyMap == [x \in {} |-> 0]

MapSet(m, k, v) == [x \in (DOMAIN m) \cup {k} |-> IF x = k THEN v ELSE m[x]]

\* index of the occurrence boundary start + k * interval at or before now
Occurrence(schedule, nowMs) ==
    (nowMs - schedule.start) \div parseInterval(schedule.interval).value

(***************************************************************************)
(* stop(): the engine's timer handle and the runtime's timers after it     *)
(***************************************************************************)
\* variant: the handle is dropped without clearInterval
stop_keepsTimer(id, tms) == [intervalId |-> 0, timers |-> tms]

stop(id, tms) ==
    IF id # 0
    THEN [intervalId |-> 0, timers |-> {tm \in tms : tm.id # id}]
    ELSE [intervalId |-> id, timers |-> tms]

\* setInterval(...): a timer the runtime has not armed yet, due one cadence on
setInterval(tms, clk) ==
    [id |-> CHOOSE n \in 1..(Cardinality(tms) + 1) : \A tm \in tms : tm.id # n,
     due |-> clk + CHECK_INTERVAL_MS]

(***************************************************************************)
(* checkAndSend.  A tick runs synchronously from one await to the next;    *)
(* RunLoop is the for loop from the loop test at index t.i up to the next  *)
(* await (pc = "fetch") or the end of the loop (pc = "done").  evals       *)
(* collects the entries whose loop body ran on the way.  own tells that    *)
(* the tick was begun under the registry that is loaded, eown that the     *)
(* entry it awaits for was read from the registry that is loaded.          *)
(***************************************************************************)
\* variant: the error leaves the loop and rejects the promise
Catch_rethrow(t) == [t EXCEPT !.pc = "rejected"]

\* the catch block of the loop body: log, then go on with the next entry
Catch(t) == [t EXCEPT !.i = t.i + 1, !.pc = "loop"]

RECURSIVE RunLoop(_, _, _)
RunLoop(t, schedules, lsm) ==
    IF t.pc = "rejected" THEN t
    ELSE IF t.i >= Len(schedules) THEN [t EXCEPT !.pc = "done"]
    ELSE LET schedule == schedules[t.i + 1]
             iv == parseInterval(schedule.interval)
             lastSent == IF t.i \in DOMAIN lsm THEN <<lsm[t.i]>> ELSE <<>>
             due == iv.ok /\ shouldSendNow(schedule.start, iv.value, t.now, lastSent)
             seen == [t EXCEPT !.evals = @ \cup
                         {[idx |-> t.i, ok |-> iv.ok, due |-> due,
                           occ |-> IF due THEN Occurrence(schedule, t.now) ELSE 0]}]
         IN  IF ~iv.ok THEN RunLoop(Catch(seen), schedules, lsm)
             ELSE IF due
                  THEN [seen EXCEPT !.pc = "fetch", !.schedule = schedule, !.eown = TRUE]
                  ELSE RunLoop([seen EXCEPT !.i = seen.i + 1], schedules, lsm)

checkAndSend(cl, clk, schedules, lsm) ==
    LET t == [now |-> clk, i |-> 0, pc |-> "loop", schedule |-> NoEntry,
              eown |-> TRUE, own |-> TRUE, evals |-> {}]
    IN  IF ~cl THEN [t EXCEPT !.pc = "done"]
        ELSE RunLoop(t, schedules, lsm)

\* the loop goes on after the await of tick t has been dealt with
Resume(t, schedules, lsm) ==
    RunLoop([t EXCEPT !.evals = {}], schedules, lsm)

\* variant: the time is recorded whether or not the send succeeded
Recorded_always(lsm, t, outcome) == MapSet(lsm, t.i, t.now)

\* this.lastSentMap after await channel.send(...) settled: the set of line
\* 179 is reached only when the await did not throw
Recorded(lsm, t, outcome) ==
    IF outcome = "ok" THEN MapSet(lsm, t.i, t.now) ELSE lsm

\* what await this.client.channels.fetch(...) can settle to
FetchOutcomes == {"text", "nontext", "null", "throw"}

\* what await channel.send(...) can settle to
SendOutcomes == {"ok", "throw"}

\* tick t after its fetch settled and it ran on to its next await
FetchNext(t, outcome) ==
    CASE outcome = "text" -> [t EXCEPT !.pc = "send", !.evals = {}]
      [] outcome \in {"null", "nontext"} ->
            Resume([t EXCEPT !.i = t.i + 1], scheduleConfig, lastSentMap)
      [] outcome = "throw" ->
            Resume(Catch(t), scheduleConfig, lastSentMap)

\* tick t after its send settled and it ran on to its next await
SendNext(t, outcome) ==
    IF outcome = "ok"
    THEN Resume([t EXCEPT !.i = t.i + 1], scheduleConfig,
                Recorded(lastSentMap, t, outcome))
    ELSE Resume(Catch(t), scheduleConfig, Recorded(lastSentMap, t, outcome))

Suspended(t) == t.pc \in {"fetch", "send"}

\* the suspended invocations are independent promises: a bag of ticks
InFlight(tks) == BagCardinality(tks)

Started(tks, t) ==
    IF Suspended(t) THEN tks (+) SetToBag({[t EXCEPT !.evals = {}]}) ELSE tks

Replaced(tks, old, t) == Started(tks (-) SetToBag({old}), t)

\* a load makes the suspended invocations ticks of an earlier registry
Outlived(t) == [t EXCEPT !.own = FALSE, !.eown = FALSE]

Reloaded(tks) == BagOfAll(Outlived, tks)

(***************************************************************************)
(* Operations                                                              *)
(***************************************************************************)
\* the engine as its constructor leaves it
Constructed ==
    /\ clock = 0
    /\ client = FALSE
    /\ intervalId = 0
    /\ scheduleConfig = <<>>
    /\ lastSentMap = EmptyMap
    /\ timers = {}
    /\ ticks = EmptyBag
    /\ rejected = FALSE
    /\ loadedAt = 0
    /\ sent = {}
    /\ unresolved = EmptyMap

Init ==
    /\ Constructed
    /\ NoCall
    /\ NoThread

Initialize(cfg) ==
    LET stopped == stop(intervalId, timers)
        t == checkAndSend(TRUE, clock, cfg, EmptyMap)
    IN  /\ UNCHANGED <<clock, functionVars, enrollVars>>
        /\ client' = TRUE
        /\ lastSentMap' = EmptyMap
        /\ scheduleConfig' = cfg
        /\ loadedAt' = clock
        /\ sent' = {}
        /\ unresolved' = EmptyMap
        /\ Suspended(t) => InFlight(ticks) < MaxInFlight
        /\ IF Len(cfg) = 0
           THEN /\ intervalId' = stopped.intervalId
                /\ timers' = stopped.timers
                /\ ticks' = Reloaded(ticks)
                /\ rejected' = rejected
           ELSE /\ intervalId' = setInterval(stopped.timers, clock).id
                /\ timers' = stopped.timers \cup {setInterval(stopped.timers, clock)}
                /\ ticks' = Started(Reloaded(ticks), t)
                /\ rejected' = (rejected \/ t.pc = "rejected")

\* variant: stopping also forgets the last-sent times
Stop_clearsLastSent ==
    LET stopped == stop(intervalId, timers)
    IN  /\ intervalId' = stopped.intervalId
        /\ timers' = stopped.timers
        /\ lastSentMap' = EmptyMap
        /\ UNCHANGED <<clock, client, scheduleConfig, ticks, rejected, loadedAt,
                       sent, unresolved, functionVars, enrollVars>>

Stop ==
    LET stopped == stop(intervalId, timers)
    IN  /\ intervalId' = stopped.intervalId
        /\ timers' = stopped.timers
        /\ UNCHANGED <<clock, client, scheduleConfig, lastSentMap, ticks, rejected,
                       loadedAt, sent, unresolved, functionVars, enrollVars>>

\* the callback of setInterval; the runtime re-arms the timer one cadence
\* after the callback ran
TimerFire(tm) ==
    LET t == checkAndSend(client, clock, scheduleConfig, lastSentMap)
    IN  /\ tm \in timers
        /\ clock >= tm.due
        /\ UNCHANGED <<clock, client, intervalId, scheduleConfig, lastSentMap,
                       loadedAt, sent, unresolved, functionVars, enrollVars>>
        /\ timers' = (timers \ {tm}) \cup {[tm EXCEPT !.due = clock + CHECK_INTERVAL_MS]}
        /\ Suspended(t) => InFlight(ticks) < MaxInFlight
        /\ ticks' = Started(ticks, t)
        /\ rejected' = (rejected \/ t.pc = "rejected")

\* channel.send(schedule.message) as tick t invokes it
SendCall(t) ==
    [idx |-> t.i, occ |-> Occurrence(t.schedule, t.now), message |-> t.schedule.message]

\* await this.client.channels.fetch(schedule.channel_id) settles
FetchResolve(t, outcome) ==
    LET next == FetchNext(t, outcome)
    IN  /\ BagIn(t, ticks)
        /\ t.pc = "fetch"
        /\ UNCHANGED <<clock, client, intervalId, scheduleConfig, lastSentMap, timers,
                       loadedAt, functionVars, enrollVars>>
        /\ sent' = IF outcome = "text" /\ t.eown
                   THEN sent \cup {[idx |-> SendCall(t).idx, occ |-> SendCall(t).occ]}
                   ELSE sent
        /\ unresolved' = IF outcome \in {"null", "nontext"} /\ t.own
                         THEN MapSet(unresolved, t.i,
                                     [now |-> t.now, occ |-> Occurrence(t.schedule, t.now)])
                         ELSE unresolved
        /\ ticks' = Replaced(ticks, t, next)
        /\ rejected' = (rejected \/ next.pc = "rejected")

\* the identifier of the forum thread considered, as a channel
ThreadId == "1300000000000000001"

\* the thread after channel.send(schedule.message) of tick t settled: a
\* thread is text-based, so that an entry whose channel_id is the thread's is
\* sent into it.  The text of the message mentions nobody.
Delivered(msgs, t, outcome) ==
    IF outcome = "ok" /\ t.schedule.channel_id = ThreadId
    THEN Append(msgs, [author |-> "bot", content |-> <<>>, via |-> "engine"])
    ELSE msgs

\* await channel.send(schedule.message) settles
SendResolve(t, outcome) ==
    LET next == SendNext(t, outcome)
    IN  /\ BagIn(t, ticks)
        /\ t.pc = "send"
        /\ UNCHANGED <<clock, client, intervalId, scheduleConfig, timers, loadedAt,
                       sent, unresolved, functionVars, parentId, guild, runs>>
        /\ messages' = Delivered(messages, t, outcome)
        /\ lastSentMap' = Recorded(lastSentMap, t, outcome)
        /\ ticks' = Replaced(ticks, t, next)
        /\ rejected' = (rejected \/ next.pc = "rejected")

\* time passes
Advance ==
    /\ clock + TimeStep <= MaxTime
    /\ clock' = clock + TimeStep
    /\ UNCHANGED <<client, intervalId, scheduleConfig, lastSentMap, timers, ticks,
                   rejected, loadedAt, sent, unresolved, functionVars, enrollVars>>

Next ==
    \/ \E cfg \in Registries : Initialize(cfg)
    \/ Stop
    \/ \E tm \in timers : TimerFire(tm)
    \/ \E t \in BagToSet(ticks), outcome \in FetchOutcomes : FetchResolve(t, outcome)
    \/ \E t \in BagToSet(ticks), outcome \in SendOutcomes : SendResolve(t, outcome)
    \/ Advance

Spec == Init /\ [][Next]_vars

(***************************************************************************)
(* Properties                                                              *)
(***************************************************************************)
\* The checkAndSend invocations whose loop ran in the step, as they were when
\* they stopped at their next await or at the end of the loop, each with the
\* indices whose await it settled with a failure.
RanByInitialize ==
    {[failed |-> {}, unavailable |-> {},
      tick |-> checkAndSend(TRUE, clock, cfg, EmptyMap)] :
        cfg \in {c \in {scheduleConfig'} : Len(c) > 0 /\ Initialize(c)}}

RanByTimer ==
    {[failed |-> {}, unavailable |-> {},
      tick |-> checkAndSend(client, clock, scheduleConfig, lastSentMap)] :
        tm \in {x \in timers : TimerFire(x)}}

\* the suspended invocations that the step takes out of their await
Woken == {t \in BagToSet(ticks) : CopiesIn(t, ticks') < CopiesIn(t, ticks)}

RanByFetch ==
    {[failed |-> IF p[2] = "text" THEN {} ELSE {p[1].i},
      unavailable |-> IF p[2] \in {"null", "nontext"} THEN {p[1].i} ELSE {},
      tick |-> FetchNext(p[1], p[2])] :
        p \in {q \in Woken \X FetchOutcomes : FetchResolve(q[1], q[2])}}

RanBySend ==
    {[failed |-> IF p[2] = "ok" THEN {} ELSE {p[1].i}, unavailable |-> {},
      tick |-> SendNext(p[1], p[2])] :
        p \in {q \in Woken \X SendOutcomes : SendResolve(q[1], q[2])}}

\* those of a registry that was loaded before the step
RanLater == RanByTimer \cup RanByFetch \cup RanBySend

Ran == RanByInitialize \cup RanLater

\* the ticks that invoke send for an entry read from the loaded registry
Dispatching == {t \in Woken : t.eown /\ FetchResolve(t, "text")}

\* C2: initialized with one entry whose start is the time of initialize and
\* whose interval is 1h, send is invoked for the entry only by the first
\* check, when its fetch resolved to a text channel, with the entry's message
\* text and not a second time; the timer tick one cadence later finds no
\* entry due.
C2Case ==
    /\ client
    /\ Len(scheduleConfig) = 1
    /\ scheduleConfig[1].start = loadedAt
    /\ parseInterval(scheduleConfig[1].interval) = [ok |-> TRUE, value |-> 3600000]

C2_SentOnceInFirstCycle ==
    [][C2Case =>
          /\ \A t \in Dispatching :
                /\ sent = {}
                /\ sent' = {[idx |-> 0, occ |-> 0]}
                /\ t.now = loadedAt
                /\ SendCall(t).message = scheduleConfig[1].message
                /\ BagIn([t EXCEPT !.pc = "send"], ticks')
          /\ \A r \in RanByTimer : \A e \in r.tick.evals : ~e.due
      ]_vars

C2_Witness ==
    /\ C2Case
    /\ sent = {[idx |-> 0, occ |-> 0]}
    /\ lastSentMap = (0 :> loadedAt)
    /\ clock = loadedAt + CHECK_INTERVAL_MS
    /\ \E tm \in timers : tm.due = clock + CHECK_INTERVAL_MS
    /\ ticks = EmptyBag

\* C7: at most one repeating timer is armed, and it is the one the engine
\* holds the handle of.
C7_AtMostOneTimer ==
    /\ Cardinality(timers) <= 1
    /\ \A tm \in timers : tm.id = intervalId
    /\ intervalId # 0 => \E tm \in timers : tm.id = intervalId

\* a registry was loaded and a timer armed while a tick of an earlier
\* initialize was still suspended
C7_Witness ==
    /\ Cardinality(timers) = 1
    /\ loadedAt = clock
    /\ \E tm \in timers : tm.due = clock + CHECK_INTERVAL_MS
    /\ \E t \in BagToSet(ticks) : ~t.own /\ t.now < loadedAt

\* C10: stop() leaves the timer not armed and touches neither the registry
\* nor the last-sent state; with no timer armed (as after a first stop) it
\* changes nothing of the engine.
C10_StopIdempotent ==
    [][Stop =>
          /\ intervalId' = 0
          /\ timers' = {}
          /\ scheduleConfig' = scheduleConfig
          /\ lastSentMap' = lastSentMap
          /\ client' = client
          /\ ticks' = ticks
          /\ intervalId = 0 => UNCHANGED vars]_vars

\* stop() has run on an engine with a loaded registry and last-sent times
C10_Witness ==
    /\ client
    /\ Len(scheduleConfig) > 0
    /\ intervalId = 0
    /\ timers = {}
    /\ lastSentMap # EmptyMap

\* the evaluation e of tick n comes after an evaluation of the same index,
\* by an earlier tick of the same initialization, whose channel could not be
\* resolved
Retry(n, e) ==
    /\ n.own
    /\ e.idx \in DOMAIN unresolved
    /\ n.now > unresolved[e.idx].now

\* C3 as amended: a tick in which a due entry's channel could not be
\* resolved leaves the entry's last-sent state unchanged, but a later tick
\* of the same initialization, at least one check cadence later, is outside
\* the window of the failed occurrence: it evaluates the entry as due only
\* for a later occurrence, the failed occurrence is not retried.
C3_RetriedOnlyAtLaterOccurrence ==
    [][\A r \in RanLater :
          /\ r.unavailable # {} => lastSentMap' = lastSentMap
          /\ \A e \in r.tick.evals :
                Retry(r.tick, e) =>
                   /\ r.tick.now >= unresolved[e.idx].now + CHECK_INTERVAL_MS
                   /\ e.due => e.occ > unresolved[e.idx].occ
      ]_vars

\* the channel of entry i could not be resolved by the first check, and the
\* timer tick one cadence later has run and found the entry outside its
\* window: nothing was sent
C3_Witness ==
    \E i \in DOMAIN unresolved :
        /\ unresolved[i].now = loadedAt
        /\ clock = loadedAt + CHECK_INTERVAL_MS
        /\ \E tm \in timers : tm.due = clock + CHECK_INTERVAL_MS
        /\ ~shouldSendNow(scheduleConfig[i + 1].start,
                          parseInterval(scheduleConfig[i + 1].interval).value,
                          clock, <<>>)
        /\ i \notin DOMAIN lastSentMap
        /\ sent = {}
        /\ ticks = EmptyBag

\* C3 as stated: a tick that comes after the one in which the channel of a
\* due entry could not be resolved evaluates the entry as due.
C3_Original ==
    [][\A r \in RanLater : \A e \in r.tick.evals : Retry(r.tick, e) => e.due]_vars

\* C4: an entry's last-sent time is set only by the step in which a send
\* invoked for that index resolved without error, to the time of that tick
\* (so an index of the map has been dispatched); a failed fetch, a failed
\* send and an invalid interval leave the last-sent state unchanged; no
\* checkAndSend promise is rejected.
C4_RecordedOnlyOnSuccess ==
    [][/\ \A i \in DOMAIN lastSentMap' :
              (i \notin DOMAIN lastSentMap \/ lastSentMap'[i] # lastSentMap[i])
                 => \E t \in Woken :
                       /\ t.pc = "send" /\ t.i = i
                       /\ SendResolve(t, "ok")
                       /\ lastSentMap'[i] = t.now
       /\ \A r \in Ran :
             /\ r.failed # {} => lastSentMap' = lastSentMap
             /\ \A e \in r.tick.evals :
                   (~e.ok /\ e.idx \in DOMAIN lastSentMap') =>
                       /\ e.idx \in DOMAIN lastSentMap
                       /\ lastSentMap'[e.idx] = lastSentMap[e.idx]
       /\ ~rejected'
      ]_vars

\* send was invoked for an entry of the loaded registry, has settled, and
\* the entry has no last-sent time: the send failed; another entry's send
\* succeeded
C4_Witness ==
    /\ \E s \in sent : s.idx \notin DOMAIN lastSentMap
    /\ ticks = EmptyBag
    /\ DOMAIN lastSentMap # {}

\* C6: when the processing of entry i fails in a tick (invalid interval,
\* unavailable channel, failed fetch or send), the tick goes on: every later
\* entry of the registry has its loop body run in the same step, up to the
\* first one found due, whose fetch the tick then awaits; and a send that
\* succeeds is recorded with the time of its tick.
FailedIn(r) == r.failed \cup {e.idx : e \in {x \in r.tick.evals : ~x.ok}}

C6_FailuresIsolated ==
    [][/\ \A r \in Ran :
            \A i \in FailedIn(r) :
               \A j \in (i + 1)..(Len(scheduleConfig') - 1) :
                  \/ \E e \in r.tick.evals : e.idx = j /\ (r.tick.pc = "done" => ~e.due)
                  \/ /\ r.tick.pc = "fetch"
                     /\ r.tick.i < j
                     /\ \E e \in r.tick.evals : e.idx = r.tick.i /\ e.due
                     /\ BagIn([r.tick EXCEPT !.evals = {}], ticks')
       /\ \A t \in Woken :
             SendResolve(t, "ok") =>
                /\ t.i \in DOMAIN lastSentMap'
                /\ lastSentMap'[t.i] = t.now
      ]_vars

\* in one timer tick of the loaded registry the channel of entry 0 could not
\* be resolved and the send of entry 1 was recorded
C6_Witness ==
    /\ Len(scheduleConfig) = 2
    /\ 0 \in DOMAIN unresolved
    /\ unresolved[0].now > loadedAt
    /\ 0 \notin DOMAIN lastSentMap
    /\ 1 \in DOMAIN lastSentMap
    /\ lastSentMap[1] = unresolved[0].now

\* C1: for every entry of a loaded registry and every occurrence boundary
\* start + k * interval, the message is sent at most once: send is never
\* invoked for an entry of the loaded registry and an occurrence it has
\* already been invoked for.
C1_AtMostOncePerOccurrence ==
    [][\A t \in Dispatching :
          [idx |-> SendCall(t).idx, occ |-> SendCall(t).occ] \notin sent]_vars

\* C5: while one registry is loaded, no tick begun under it replaces an
\* entry's last-sent time with an earlier one.
C5_LastSentMonotonic ==
    [][\A t \in Woken :
          (t.own /\ \E outcome \in SendOutcomes : SendResolve(t, outcome)) =>
              \A i \in DOMAIN lastSentMap \cap DOMAIN lastSentMap' :
                  lastSentMap'[i] >= lastSentMap[i]]_vars

\* C8: no value enters the last-sent map for an entry of a registry that
\* is no longer loaded: the step that records a time for an index settles a
\* send of an entry read from the loaded registry.
C8_NoStaleLastSent ==
    [][\A i \in DOMAIN lastSentMap' :
          (i \notin DOMAIN lastSentMap \/ lastSentMap'[i] # lastSentMap[i])
             => \E t \in Woken :
                   t.eown /\ t.i = i /\ SendResolve(t, "ok")]_vars

\* C9: once initialize has loaded an empty registry, no timer is armed, no
\* tick runs and send is not invoked as long as that registry is loaded.
C9_EmptyRegistrySendsNothing ==
    [][/\ (client' /\ Len(scheduleConfig') = 0) => (timers' = {} /\ intervalId' = 0)
       /\ (client /\ Len(scheduleConfig) = 0) =>
             /\ RanByTimer = {}
             /\ \A t \in Woken : ~FetchResolve(t, "text")
      ]_vars


(***************************************************************************)
(* Calls of the exported pure functions, shouldSendNow and parseInterval,   *)
(* on arguments of their whole domain: the times and the durations are the *)
(* multiples of Grain up to MaxGrid * Grain, the strings are those of at   *)
(* most MaxStrLen characters of Alphabet.                                  *)
(***************************************************************************)
Grain == CHECK_INTERVAL_MS \div 3

MaxGrid == 9

MaxStrLen == 3

Times == {k * Grain : k \in 0..MaxGrid}

Alphabet == {"0", "1", "3", "m", "h", "d", "x", "-", "."}

\* the code computes in doubles, which are exact far beyond the integers of
\* the model: the strings are those whose duration the model can compute too
Computable(str) ==
    IntervalMatch(str) =>
        parseInt(SubSeq(str, 1, Len(str) - 1)) <=
            2147483647 \div (CASE str[Len(str)] = "m" -> 60 * 1000
                               [] str[Len(str)] = "h" -> 60 * 60 * 1000
                               [] str[Len(str)] = "d" -> 24 * 60 * 60 * 1000)

Strings == {str \in UNION {[1..n -> Alphabet] : n \in 0..MaxStrLen} : Computable(str)}

ShouldSendNowCalls ==
    [fn : {"shouldSendNow"}, start : Times, intervalMs : Times, now : Times,
     lastSent : {<<>>} \cup {<<t>> : t \in Times}]

ParseIntervalCalls == [fn : {"parseInterval"}, str : Strings]

InitFn ==
    /\ Constructed
    /\ NoThread
    /\ call \in ShouldSendNowCalls \cup ParseIntervalCalls
    /\ returned = <<>>

CallShouldSendNow ==
    /\ call.fn = "shouldSendNow"
    /\ returned = <<>>
    /\ returned' = <<shouldSendNow(call.start, call.intervalMs, call.now, call.lastSent)>>
    /\ UNCHANGED <<call, engineVars, enrollVars>>

CallParseInterval ==
    /\ call.fn = "parseInterval"
    /\ returned = <<>>
    /\ returned' = <<parseInterval(call.str)>>
    /\ UNCHANGED <<call, engineVars, enrollVars>>

NextFn == CallShouldSendNow \/ CallParseInterval

SpecFn == InitFn /\ [][NextFn]_vars

\* shouldSendNow has returned result r
Returned(r) == call.fn = "shouldSendNow" /\ returned = <<r>>

\* now is at or after start, less than 60 000 ms after an occurrence boundary
InsideWindow(start, intervalMs, now) ==
    /\ intervalMs > 0
    /\ start <= now
    /\ (now - start) % intervalMs < 60000

\* C11: with no last dispatch and a positive interval, shouldSendNow returns
\* true exactly when start <= now and (now - start) mod intervalMs < 60 000;
\* whatever the other arguments, it returns false when now < start.
C11_DueExactlyInsideWindow ==
    (call.fn = "shouldSendNow" /\ returned # <<>>) =>
        /\ (call.lastSent = <<>> /\ call.intervalMs > 0) =>
              (returned[1] <=> InsideWindow(call.start, call.intervalMs, call.now))
        /\ call.now < call.start => returned[1] = FALSE

\* a call without last dispatch at the second occurrence of a 2-minute interval
C11_Witness ==
    /\ Returned(TRUE)
    /\ call.lastSent = <<>>
    /\ call.intervalMs = 2 * 60000
    /\ call.now - call.start = call.intervalMs + Grain

\* C12: when lastSent is set and now - lastSent < intervalMs / 2, shouldSendNow
\* returns false, also when now is inside the window.
C12_HalfIntervalSuppresses ==
    (call.fn = "shouldSendNow" /\ returned # <<>>) =>
        ((call.lastSent # <<>> /\ 2 * (call.now - call.lastSent[1]) < call.intervalMs)
            => returned[1] = FALSE)

\* a call inside the window, less than half an interval after the last dispatch
C12_Witness ==
    /\ Returned(FALSE)
    /\ InsideWindow(call.start, call.intervalMs, call.now)
    /\ call.lastSent # <<>>
    /\ call.lastSent[1] <= call.now
    /\ 2 * (call.now - call.lastSent[1]) < call.intervalMs

\* C13: when lastSent is a time inside the window of an occurrence and now is
\* exactly one interval after it, shouldSendNow returns true.
C13_DueAgainAfterFullInterval ==
    (call.fn = "shouldSendNow" /\ returned # <<>>) =>
        ((/\ call.lastSent # <<>>
          /\ call.lastSent[1] = call.now - call.intervalMs
          /\ InsideWindow(call.start, call.intervalMs, call.lastSent[1]))
            => returned[1] = TRUE)

\* a call one interval after a dispatch made late in the first window
C13_Witness ==
    /\ Returned(TRUE)
    /\ call.lastSent # <<>>
    /\ call.lastSent[1] = call.now - call.intervalMs
    /\ call.lastSent[1] > call.start
    /\ InsideWindow(call.start, call.intervalMs, call.lastSent[1])

\* the value of a string of decimal digits that denotes a positive integer,
\* 0 for any other string
RECURSIVE Numeral(_)
Numeral(ds) ==
    IF ds = <<>> THEN 0
    ELSE IF ds[Len(ds)] \notin Digits THEN 0
    ELSE IF Len(ds) > 1 /\ \E k \in 1..(Len(ds) - 1) : ds[k] \notin Digits THEN 0
    ELSE Numeral(SubSeq(ds, 1, Len(ds) - 1)) * 10 + DigitVal(ds[Len(ds)])

UnitFactor(u) ==
    CASE u = "m" -> 60000 [] u = "h" -> 3600000 [] u = "d" -> 86400000 [] OTHER -> 0

\* the duration of a string <positive integer><unit>, 0 for any other string
Duration(str) ==
    IF str = <<>> THEN 0
    ELSE Numeral(SubSeq(str, 1, Len(str) - 1)) * UnitFactor(str[Len(str)])

\* C14: parseInterval returns value * unit factor for every string
\* <positive integer><unit> with unit m, h or d, fails for every other string
\* (a zero value among them), and never returns a duration that is not
\* strictly positive.
C14_ParsesExactlyPositiveIntervals ==
    (call.fn = "parseInterval" /\ returned # <<>>) =>
        /\ Duration(call.str) > 0 =>
              returned[1] = [ok |-> TRUE, value |-> Duration(call.str)]
        /\ Duration(call.str) = 0 => ~returned[1].ok
        /\ returned[1].ok => returned[1].value > 0


(***************************************************************************)
(* Enrollment into a forum thread (src/src/bot/client.ts).  One thread is  *)
(* considered.  The users that are not bots have the identifiers 1..guild. *)
(* The content of a post is the sequence of the users it mentions: the     *)
(* zero-width space of the placeholder mentions nobody, and the join of    *)
(* <@id> over a batch mentions the batch in its order.                     *)
(* runs[0] is the invocation of the thread-created handler, runs[k] that   *)
(* of the member-joined handler for the k-th join.  A run advances from    *)
(* one await to the next; pc names the await it is suspended at.           *)
(***************************************************************************)
TARGET_FORUM_CHANNEL_IDS == <<"1208765744599269386", "1463135499140202517">>

BATCH_SIZE == 10

\* thread.messages.fetch({ limit: 50, after: '0' })
FetchLimit == 50

ZeroWidthSpace == <<>>

\* the guild grows to at most MaxMembers users
MaxMembers == 23

\* the number of joins
MaxJoins == 2

GuildSizes == {0, BATCH_SIZE, MaxMembers}

\* the posts of users that a thread holds when the bot first deals with it:
\* the starter post of a new thread, a page of posts of an old one
Backlogs == {1, FetchLimit}

UserPosts(n) ==
    [p \in 1..n |-> [author |-> "user", content |-> ZeroWidthSpace, via |-> "user"]]

IsTarget(id) == \E f \in 1..Len(TARGET_FORUM_CHANNEL_IDS) : TARGET_FORUM_CHANNEL_IDS[f] = id

Min(a, b) == IF a < b THEN a ELSE b

\* variant: the slice includes the element at its end index
slice_inclusiveEnd(ids, from, to) == SubSeq(ids, from + 1, Min(to + 1, Len(ids)))

\* ids.slice(from, to) for 0 <= from <= to
slice(ids, from, to) == SubSeq(ids, from + 1, Min(to, Len(ids)))

NewRun(kind) ==
    [kind |-> kind, pc |-> "idle",
     member |-> 0,          \* member.id
     forums |-> <<>>,       \* the forums of the for loop of line 124 still to fetch
     threads |-> 0,         \* threads.length
     memberIds |-> <<>>, i |-> 0, botMessage |-> 0, added |-> 0,
     userIds |-> <<>>,      \* the userIds of addUsersToThreadQuietly
     edits |-> {},          \* the edit calls in flight
     issued |-> <<>>,       \* history: the edit calls issued
     calls |-> <<>>,        \* history: the options of the send and edit calls issued
     failed |-> {},         \* history: the loop indices whose batch failed
     posted |-> {},         \* history: the posts the run created
     marker |-> 0,          \* history: the oldest post of the bot in the thread
                            \* when the member-joined event came, 0 for none
     error |-> "none"]      \* "caught" when the handler's catch block ran

\* the posts of the bot in the thread: the marker posts
Markers(msgs) == {p \in 1..Len(msgs) : msgs[p].author = "bot"}

OldestMarker(msgs) ==
    IF Markers(msgs) = {} THEN 0
    ELSE CHOOSE p \in Markers(msgs) : \A q \in Markers(msgs) : p <= q

\* variant: no post of the bot is found
findBotMessageInThread_none(msgs) == 0

\* findBotMessageInThread: the oldest post of the bot among the FetchLimit
\* oldest posts, 0 for null
findBotMessageInThread(msgs) ==
    LET page == 1..Min(FetchLimit, Len(msgs))
        own == {p \in page : msgs[p].author = "bot"}
    IN  IF own = {} THEN 0 ELSE CHOOSE p \in own : \A q \in own : p <= q

\* the handler returns.  The locals of a member-joined invocation are gone
\* with it; of the thread-created invocation the record stays as the history
\* of what it did.
Return(run) ==
    IF run.kind = "member" THEN [NewRun("member") EXCEPT !.pc = "done"]
    ELSE [run EXCEPT !.pc = "done"]

\* the catch of the handler: lines 105-107, 156-158
HandlerCatch(run) == Return([run EXCEPT !.error = "caught"])

\* the options of thread.send, lines 83-87 and 193-197: allowedMentions has no
\* users, written users |-> <<>>
SendOptions ==
    [content |-> ZeroWidthSpace,
     allowedMentions |-> [users |-> <<>>, parse |-> {}],
     flags |-> {"SuppressNotifications"}]

\* variant: the mentions of the content are parsed for users
EditOptions_parseUsers(userIds) ==
    [content |-> userIds,
     allowedMentions |-> [users |-> userIds, parse |-> {"users"}],
     flags |-> {}]

\* the options of edit, lines 185-188 and 199-202: the content is the join of
\* <@id> over userIds
EditOptions(userIds) ==
    [content |-> userIds,
     allowedMentions |-> [users |-> userIds, parse |-> {}],
     flags |-> {}]

\* thread.send(...) is called while userIds is the batch at hand
SendCalled(run, userIds) ==
    [run EXCEPT !.calls = Append(@, [op |-> "send", userIds |-> userIds,
                                     options |-> SendOptions])]

\* addUsersToThreadQuietly up to its first await
addUsersToThreadQuietly(run, userIds, existingMessage) ==
    IF existingMessage # 0
    THEN [run EXCEPT !.pc = "edit", !.userIds = userIds,
                     !.edits = @ \cup {[msg |-> existingMessage, userIds |-> userIds]},
                     !.issued = Append(@, [msg |-> existingMessage, userIds |-> userIds]),
                     !.calls = Append(@, [op |-> "edit", userIds |-> userIds,
                                          options |-> EditOptions(userIds)])]
    ELSE [SendCalled(run, userIds) EXCEPT !.pc = "create", !.userIds = userIds]

\* variant: the edits of all batches are issued without awaiting any
ForLoop_unawaited(run) ==
    LET starts == {j \in run.i..(Len(run.memberIds) - 1) : (j - run.i) % BATCH_SIZE = 0}
        batch(j) == [msg |-> run.botMessage,
                     userIds |-> slice(run.memberIds, j, j + BATCH_SIZE)]
    IN  IF starts = {} THEN Return(run)
        ELSE [run EXCEPT !.pc = "edit",
                         !.edits = @ \cup {batch(j) : j \in starts},
                         !.issued = @ \o [n \in 1..Cardinality(starts) |->
                                             batch(run.i + (n - 1) * BATCH_SIZE)],
                         !.i = Len(run.memberIds)]

\* the for loop of line 91 from its test up to the next await
ForLoop(run) ==
    IF run.i < Len(run.memberIds)
    THEN addUsersToThreadQuietly(run, slice(run.memberIds, run.i, run.i + BATCH_SIZE),
                                 run.botMessage)
    ELSE Return(run)

\* variant: the error of a batch is thrown on to the handler's catch
BatchCatch_rethrow(run) == HandlerCatch(run)

\* the catch of a batch, lines 96-101, and the loop's increment
BatchCatch(run) ==
    ForLoop([run EXCEPT !.failed = @ \cup {run.i}, !.i = run.i + BATCH_SIZE])

\* the catch of line 150, and the end of the loop of line 143 over the one
\* thread found
ThreadCatch(run) == Return(run)

\* the for loop of line 124 from its test up to the next await; the loop of
\* line 143 over the threads found follows it
ForumLoop(run) ==
    IF run.forums # <<>> THEN [run EXCEPT !.pc = "active"]
    ELSE IF run.threads = 0 THEN Return(run)
    ELSE [run EXCEPT !.pc = "join"]

\* the thread as thread.send left it, and the identifier of the new post
Sent(msgs) ==
    Append(msgs, [author |-> "bot", content |-> SendOptions.content, via |-> "enroller"])

\* variant: the content is set back to the placeholder after the edit
Edited_thenCleared(msgs, c) == [msgs EXCEPT ![c.msg].content = ZeroWidthSpace]

\* the thread as the edit call c left it
Edited(msgs, c) == [msgs EXCEPT ![c.msg].content = EditOptions(c.userIds).content]

Settled == {"ok", "throw"}

InitEnroll ==
    /\ Constructed
    /\ NoCall
    /\ parentId \in {TARGET_FORUM_CHANNEL_IDS[1], "0"}
    /\ messages \in {UserPosts(n) : n \in Backlogs}
    /\ guild \in GuildSizes
    /\ runs = [k \in 0..MaxJoins |-> NewRun(IF k = 0 THEN "thread" ELSE "member")]

\* Events.ThreadCreate is emitted for the thread; a thread is newly created
\* while its starter post is the one post of a user in it
ThreadCreate(newlyCreated) ==
    /\ runs[0].pc = "idle"
    /\ newlyCreated =>
          Cardinality({p \in 1..Len(messages) : messages[p].author = "user"}) = 1
    /\ runs' = [runs EXCEPT ![0] =
                   IF newlyCreated /\ IsTarget(parentId)
                   THEN [@ EXCEPT !.pc = "join"]
                   ELSE Return(@)]
    /\ UNCHANGED <<parentId, messages, guild, engineVars, functionVars>>

\* Events.GuildMemberAdd is emitted for a user or a bot that joined; cached are
\* the target forums that member.guild.channels.cache holds as forums
GuildMemberAdd(k, bot, cached) ==
    /\ k \in 1..MaxJoins
    /\ runs[k].pc = "idle"
    /\ \A j \in 1..(k - 1) : runs[j].pc # "idle"
    /\ bot \/ guild < MaxMembers
    /\ IF bot
       THEN /\ runs' = [runs EXCEPT ![k] = Return(@)]
            /\ UNCHANGED guild
       ELSE /\ guild' = guild + 1
            /\ runs' = [runs EXCEPT ![k] =
                           ForumLoop([@ EXCEPT !.member = guild + 1,
                                               !.forums = cached,
                                               !.marker = OldestMarker(messages)])]
    /\ UNCHANGED <<parentId, messages, engineVars, functionVars>>

\* await channel.threads.fetchActive() settles
ActiveSettle(k, outcome) ==
    /\ runs[k].pc = "active"
    /\ runs' = [runs EXCEPT ![k] =
                   IF outcome = "throw" THEN HandlerCatch(@)
                   ELSE ForumLoop([@ EXCEPT
                            !.threads = @ + (IF Head(runs[k].forums) = parentId
                                             THEN 1 ELSE 0),
                            !.forums = Tail(@)])]
    /\ UNCHANGED <<parentId, messages, guild, engineVars, functionVars>>

\* await thread.join().catch(() => null) settles
JoinSettle(k, outcome) ==
    /\ runs[k].pc = "join"
    /\ runs' = [runs EXCEPT ![k].pc = IF k = 0 THEN "members" ELSE "locate"]
    /\ UNCHANGED <<parentId, messages, guild, engineVars, functionVars>>

\* await thread.guild.members.fetch() settles
MembersSettle(outcome) ==
    /\ runs[0].pc = "members"
    /\ runs' = [runs EXCEPT ![0] =
                   IF outcome = "throw" THEN HandlerCatch(@)
                   ELSE SendCalled([@ EXCEPT !.pc = "send",
                                             !.memberIds = [n \in 1..guild |-> n]],
                                   <<>>)]
    /\ UNCHANGED <<parentId, messages, guild, engineVars, functionVars>>

\* await thread.send(...) of line 83 settles
SendSettle(outcome) ==
    /\ runs[0].pc = "send"
    /\ IF outcome = "throw"
       THEN /\ runs' = [runs EXCEPT ![0] = HandlerCatch(@)]
            /\ UNCHANGED messages
       ELSE /\ messages' = Sent(messages)
            /\ runs' = [runs EXCEPT ![0] =
                           ForLoop([@ EXCEPT !.botMessage = Len(messages) + 1,
                                             !.posted = @ \cup {Len(messages) + 1},
                                             !.added = 0, !.i = 0])]
    /\ UNCHANGED <<parentId, guild, engineVars, functionVars>>

\* await thread.messages.fetch(...) of findBotMessageInThread settles
LocateSettle(k, outcome) ==
    /\ runs[k].pc = "locate"
    /\ runs' = [runs EXCEPT ![k] =
                   IF outcome = "throw" THEN ThreadCatch(@)
                   ELSE addUsersToThreadQuietly(@, <<runs[k].member>>,
                                                findBotMessageInThread(messages))]
    /\ UNCHANGED <<parentId, messages, guild, engineVars, functionVars>>

\* await thread.send(...) of line 193 settles
CreateSettle(k, outcome) ==
    /\ runs[k].pc = "create"
    /\ IF outcome = "throw"
       THEN /\ runs' = [runs EXCEPT ![k] =
                           IF k = 0 THEN BatchCatch(@) ELSE ThreadCatch(@)]
            /\ UNCHANGED messages
       ELSE /\ messages' = Sent(messages)
            /\ runs' = [runs EXCEPT ![k] =
                           addUsersToThreadQuietly(
                               [@ EXCEPT !.posted = @ \cup {Len(messages) + 1}],
                               runs[k].userIds, Len(messages) + 1)]
    /\ UNCHANGED <<parentId, guild, engineVars, functionVars>>

\* the edit call c of run k settles
EditSettled(k, c, outcome) ==
    LET run == [runs[k] EXCEPT !.edits = @ \ {c}]
    IN  /\ runs[k].pc = "edit"
        /\ c \in runs[k].edits
        /\ messages' = IF outcome = "ok" THEN Edited(messages, c) ELSE messages
        /\ runs' = [runs EXCEPT ![k] =
                       IF k # 0
                       THEN (IF outcome = "ok" THEN Return(run) ELSE ThreadCatch(run))
                       ELSE IF outcome = "ok"
                            THEN ForLoop([run EXCEPT !.botMessage = c.msg,
                                                     !.added = @ + Len(c.userIds),
                                                     !.i = @ + BATCH_SIZE])
                            ELSE BatchCatch(run)]
        /\ UNCHANGED <<parentId, guild, engineVars, functionVars>>

\* await existingMessage.edit(...) or await msg.edit(...) settles
EditSettle(k, outcome) == \E c \in runs[k].edits : EditSettled(k, c, outcome)

Caches == { TARGET_FORUM_CHANNEL_IDS, <<TARGET_FORUM_CHANNEL_IDS[1]>> }

NextEnroll ==
    \/ \E newlyCreated \in BOOLEAN : ThreadCreate(newlyCreated)
    \/ \E k \in 1..MaxJoins, bot \in BOOLEAN, cached \in Caches : GuildMemberAdd(k, bot, cached)
    \/ \E k \in 1..MaxJoins, outcome \in Settled : ActiveSettle(k, outcome)
    \/ \E k \in 0..MaxJoins, outcome \in Settled : JoinSettle(k, outcome)
    \/ \E outcome \in Settled : MembersSettle(outcome)
    \/ \E outcome \in Settled : SendSettle(outcome)
    \/ \E k \in 1..MaxJoins, outcome \in Settled : LocateSettle(k, outcome)
    \/ \E k \in 0..MaxJoins, outcome \in Settled : CreateSettle(k, outcome)
    \/ \E k \in 0..MaxJoins, outcome \in Settled : EditSettle(k, outcome)

SpecEnroll == InitEnroll /\ [][NextEnroll]_vars


\* C15: the thread holds at most one marker post at any time.
C15_AtMostOneMarker == Cardinality(Markers(messages)) <= 1

\* the thread-created handler has finished an enrollment in which no
\* platform call failed
EnrolledAll ==
    /\ runs[0].pc = "done"
    /\ runs[0].botMessage # 0
    /\ runs[0].failed = {}
    /\ runs[0].error = "none"

\* C16: enrolling N users into a new thread with every platform call
\* succeeding creates exactly one post and issues ceil(N / 10) edits, all on
\* that post; the n-th edit mentions the ids 10 (n - 1) + 1 .. min(10 n, N) of
\* the id list, in order, so that the batches are consecutive slices of at
\* most 10 that cover every id once.
C16_OnePostCeilEdits ==
    EnrolledAll =>
        LET run == runs[0]
            N == Len(run.memberIds)
        IN  /\ Cardinality(run.posted) = 1
            /\ Len(run.issued) = (N + 9) \div 10
            /\ \A n \in 1..Len(run.issued) :
                  /\ run.issued[n].msg \in run.posted
                  /\ Len(run.issued[n].userIds) = Min(10, N - 10 * (n - 1))
                  /\ \A j \in 1..Len(run.issued[n].userIds) :
                        run.issued[n].userIds[j] = run.memberIds[10 * (n - 1) + j]
            /\ run.added = N

\* 23 users: edits for batches of 10, 10 and 3
C16_Witness ==
    /\ EnrolledAll
    /\ Len(runs[0].memberIds) = 23
    /\ Len(runs[0].issued) = 3
    /\ runs[0].issued[2].userIds = [j \in 1..10 |-> 10 + j]
    /\ runs[0].issued[3].userIds = <<21, 22, 23>>

\* C17: a member-joined handler whose event came when the thread had a marker
\* post among its 50 oldest posts creates no post; the edit it issues is
\* on that marker post.
C17_ReusesMarkerInFirstPage ==
    \A k \in 1..MaxJoins :
        (runs[k].marker # 0 /\ runs[k].marker <= 50) =>
            /\ runs[k].pc # "create"
            /\ runs[k].pc = "edit" =>
                  runs[k].edits = {[msg |-> runs[k].marker, userIds |-> <<runs[k].member>>]}

\* a member-joined handler has located the marker post and edits it
C17_Witness ==
    \E k \in 1..MaxJoins :
        /\ runs[k].marker # 0
        /\ runs[k].pc = "edit"
        /\ runs[k].edits = {[msg |-> runs[k].marker, userIds |-> <<runs[k].member>>]}
        /\ Markers(messages) = {runs[k].marker}

\* C17 as claimed: wherever in the thread the marker post is, the
\* member-joined handler creates no post and edits that post.
C17_Original ==
    \A k \in 1..MaxJoins :
        runs[k].marker # 0 =>
            /\ runs[k].pc # "create"
            /\ runs[k].pc = "edit" =>
                  runs[k].edits = {[msg |-> runs[k].marker, userIds |-> <<runs[k].member>>]}

\* C18: no post is deleted, a content that changes does not change to the
\* placeholder, and an edit that succeeds leaves its batch's mentions as the
\* content of the post: they stay until a later edit overwrites them.
C18_MentionsStayUntilOverwritten ==
    [][/\ Len(messages') >= Len(messages)
       /\ \A p \in 1..Len(messages) :
             /\ messages'[p].author = messages[p].author
             /\ messages'[p].content # messages[p].content =>
                   messages'[p].content # ZeroWidthSpace
       /\ \A k \in 0..MaxJoins : \A c \in runs[k].edits :
             EditSettled(k, c, "ok") => messages'[c.msg].content = c.userIds]_vars

\* the enrollment of 23 users has finished, no one joined, and the marker
\* post holds the mentions of the last batch
C18_Witness ==
    /\ EnrolledAll
    /\ \A k \in 1..MaxJoins : runs[k].pc = "idle"
    /\ Len(runs[0].memberIds) = 23
    /\ messages[runs[0].botMessage].content = <<21, 22, 23>>

\* C18 as claimed: when the enrollment run has finished and no edit is in
\* flight, the marker post holds the placeholder.
C18_Original ==
    (/\ runs[0].pc = "done"
     /\ runs[0].botMessage # 0
     /\ \A k \in 0..MaxJoins : runs[k].edits = {})
        => messages[runs[0].botMessage].content = ZeroWidthSpace

\* the number of users in the batches of issued that did not fail
RECURSIVE AddedBy(_, _)
AddedBy(issued, failed) ==
    IF issued = <<>> THEN 0
    ELSE AddedBy(SubSeq(issued, 1, Len(issued) - 1), failed)
         + (IF 10 * (Len(issued) - 1) \in failed THEN 0
            ELSE Len(issued[Len(issued)].userIds))

\* C19: in the run of the thread-created handler a failed edit stops
\* nothing: no error reaches the handler's catch, every edit is issued on the
\* post the run created, the edit of each batch is issued whatever became of
\* the batches before it, so that the finished run has issued ceil(N / 10)
\* edits, and added counts the users of the batches that did not fail.
C19_FailedBatchIsSkipped ==
    runs[0].botMessage # 0 =>
        LET run == runs[0]
            N == Len(run.memberIds)
        IN  /\ run.error = "none"
            /\ \A n \in 1..Len(run.issued) : run.issued[n].msg = run.botMessage
            /\ \A f \in run.failed : f \div 10 < Len(run.issued)
            /\ run.pc = "edit" => Len(run.issued) = run.i \div 10 + 1
            /\ run.pc = "done" =>
                  /\ Len(run.issued) = (N + 9) \div 10
                  /\ run.added = AddedBy(run.issued, run.failed)

\* of 23 users the first batch failed, the second and the third were added
C19_Witness ==
    /\ runs[0].pc = "done"
    /\ Len(runs[0].memberIds) = 23
    /\ runs[0].failed = {0}
    /\ Len(runs[0].issued) = 3
    /\ runs[0].added = 13

\* C20: no run has two edits in flight, and the thread-created run issues
\* the edit of its (n + 1)-th batch when the edits of n batches have settled.
C20_EditsOneAtATime ==
    \A k \in 0..MaxJoins :
        /\ Cardinality(runs[k].edits) <= 1
        /\ (runs[k].edits # {}) <=> (runs[k].pc = "edit")
        /\ (k = 0 /\ runs[k].pc = "edit") =>
              Len(runs[k].issued) = (runs[k].i \div 10) + 1

\* the edit of the third batch is in flight, alone
C20_Witness ==
    /\ runs[0].pc = "edit"
    /\ Len(runs[0].issued) = 3
    /\ runs[0].edits = {runs[0].issued[3]}


\* C21: every edit call carries the mentions of exactly the users of the
\* batch at hand as content and exactly those users as mention allow-list,
\* with nothing parsed from the content; every send call carries the
\* placeholder, an allow-list without users and without parsing, and the
\* flag that suppresses notifications.  The edit calls are those of the
\* batches issued, in order.
C21_OptionsOfCalls ==
    \A k \in 0..MaxJoins :
        LET run == runs[k]
            editCalls == SelectSeq(run.calls, LAMBDA c : c.op = "edit")
        IN  /\ \A n \in 1..Len(run.calls) :
                  LET c == run.calls[n]
                  IN  IF c.op = "edit"
                      THEN /\ c.userIds # <<>>
                           /\ c.options.content = c.userIds
                           /\ c.options.allowedMentions.users = c.userIds
                           /\ c.options.allowedMentions.parse = {}
                      ELSE /\ c.options.content = <<>>
                           /\ c.options.allowedMentions.users = <<>>
                           /\ c.options.allowedMentions.parse = {}
                           /\ c.options.flags = {"SuppressNotifications"}
            /\ Len(editCalls) = Len(run.issued)
            /\ \A n \in 1..Len(editCalls) : editCalls[n].userIds = run.issued[n].userIds

\* the thread-created handler has sent the placeholder and issued the edits
\* of three batches, the last for the users 21, 22 and 23
C21_Witness ==
    /\ Len(runs[0].calls) = 4
    /\ runs[0].calls[1].op = "send"
    /\ runs[0].calls[1].options.flags = {"SuppressNotifications"}
    /\ runs[0].calls[4].op = "edit"
    /\ runs[0].calls[4].options.allowedMentions = [users |-> <<21, 22, 23>>, parse |-> {}]


(***************************************************************************)
(* The engine and the enrollment handlers in one process.  The bootstrap   *)
(* initializes the engine once, when the client is ready; the registry     *)
(* considered holds one entry, whose channel_id is the forum thread's.     *)
(* The thread is an active thread of a target forum that exists when the   *)
(* process starts; the engine runs the check of initialize.                *)
(***************************************************************************)
EThread == [channel_id |-> ThreadId, start |-> 0, interval |-> <<"1", "m">>,
            message |-> "Test message"]

InitBot ==
    /\ Constructed
    /\ NoCall
    /\ parentId = TARGET_FORUM_CHANNEL_IDS[1]
    /\ messages = UserPosts(1)
    /\ guild = 0
    /\ runs = [k \in 0..MaxJoins |-> NewRun(IF k = 0 THEN "thread" ELSE "member")]

\* client.once("ready", () => scheduledMessageService.initialize(client))
Ready ==
    /\ ~client
    /\ Initialize(<<EThread>>)

NextBot ==
    \/ Ready
    \/ Stop
    \/ \E t \in BagToSet(ticks), outcome \in FetchOutcomes : FetchResolve(t, outcome)
    \/ \E t \in BagToSet(ticks), outcome \in SendOutcomes : SendResolve(t, outcome)
    \/ \E k \in 1..MaxJoins, bot \in BOOLEAN, cached \in Caches : GuildMemberAdd(k, bot, cached)
    \/ \E k \in 1..MaxJoins, outcome \in Settled : ActiveSettle(k, outcome)
    \/ \E k \in 1..MaxJoins, outcome \in Settled : JoinSettle(k, outcome)
    \/ \E k \in 1..MaxJoins, outcome \in Settled : LocateSettle(k, outcome)
    \/ \E k \in 1..MaxJoins, outcome \in Settled : CreateSettle(k, outcome)
    \/ \E k \in 1..MaxJoins, outcome \in Settled : EditSettle(k, outcome)

SpecBot == InitBot /\ [][NextBot]_vars

\* C22: an edit is issued only on a post that the enrollment handlers
\* created: never on a message that the schedule engine sent.
C22_EditsOnlyOwnMarkers ==
    \A k \in 0..MaxJoins : \A c \in runs[k].edits : messages[c.msg].via = "enroller"


\* stop() has returned and initialize was not called since: the registry
\* loaded by the last initialize has entries, so that initialize armed a
\* timer, and no timer is armed
Stopped ==
    /\ client
    /\ Len(scheduleConfig) > 0
    /\ intervalId = 0

\* C24: once stop() has returned and until initialize is called again, no
\* checkAndSend begins, send is invoked for no entry and no last-sent time is
\* recorded, also by an invocation that was awaiting a fetch or a send when
\* stop() was called.
C24_NothingAfterStop ==
    [][(Stopped /\ ~(\E cfg \in Registries : Initialize(cfg))) =>
          /\ RanByTimer = {}
          /\ {t \in Woken : FetchResolve(t, "text")} = {}
          /\ lastSentMap' = lastSentMap]_vars


(***************************************************************************)
(* The engine with the timer on time.  initialize is called once; the      *)
(* callback of setInterval runs exactly at each due time, one cadence      *)
(* after the other, when the checkAndSend before it has finished; every    *)
(* fetch resolves to a text channel and every send succeeds.               *)
(***************************************************************************)
\* number of cadences the clock runs through
MaxCadences == 6

EHalf == [channel_id |-> "555", start |-> CHECK_INTERVAL_MS \div 2,
          interval |-> <<"2", "m">>, message |-> "off the minute"]

EZero == [channel_id |-> "666", start |-> CHECK_INTERVAL_MS, interval |-> <<"0", "m">>,
          message |-> "no interval"]

CadenceRegistries ==
    { <<EHour>>, <<EMinute, ELater>>, <<EHalf, EMinute>>, <<EZero>> }

\* no checkAndSend is suspended and no callback of a timer is due
Quiet ==
    /\ ticks = EmptyBag
    /\ \A tm \in timers : tm.due > clock

\* the one call of initialize, at the start or one cadence later
InitializeOnce(cfg) ==
    /\ ~client
    /\ Initialize(cfg)

\* the callback of setInterval runs at its due time
TimerOnTime(tm) ==
    /\ ticks = EmptyBag
    /\ clock = tm.due
    /\ TimerFire(tm)

\* time passes up to the next due time
CadencePasses ==
    /\ Quiet
    /\ client \/ clock = 0
    /\ clock + CHECK_INTERVAL_MS <= MaxCadences * CHECK_INTERVAL_MS
    /\ clock' = clock + CHECK_INTERVAL_MS
    /\ UNCHANGED <<client, intervalId, scheduleConfig, lastSentMap, timers, ticks,
                   rejected, loadedAt, sent, unresolved, functionVars, enrollVars>>

NextCadence ==
    \/ \E cfg \in CadenceRegistries : InitializeOnce(cfg)
    \/ \E tm \in timers : TimerOnTime(tm)
    \/ \E t \in BagToSet(ticks) : FetchResolve(t, "text")
    \/ \E t \in BagToSet(ticks) : SendResolve(t, "ok")
    \/ CadencePasses

SpecCadence == Init /\ [][NextCadence]_vars

\* the occurrence boundaries start + k * interval of entry from the time
\* from up to the time to
Boundaries(entry, from, to) ==
    LET intervalMs == parseInterval(entry.interval).value
    IN  {b \in {entry.start + k * intervalMs : k \in 0..MaxCadences} :
            from <= b /\ b <= to}

\* send was invoked for the boundary b of the entry at index i
DispatchedAt(snt, entry, i, b) ==
    \E r \in snt :
        /\ r.idx = i
        /\ entry.start + r.occ * parseInterval(entry.interval).value = b

\* C23: with the timer on time and every call succeeding, send is invoked
\* exactly once for each occurrence boundary at or after initialize: not a
\* second time for a boundary, and for every boundary once the check in its
\* window has run.
C23_EachOccurrenceOnce ==
    [][/\ \A t \in Dispatching :
             [idx |-> SendCall(t).idx, occ |-> SendCall(t).occ] \notin sent
       /\ (client' /\ Quiet') =>
             \A i \in 1..Len(scheduleConfig') :
                \A b \in Boundaries(scheduleConfig'[i], loadedAt', clock') :
                   DispatchedAt(sent', scheduleConfig'[i], i - 1, b)]_vars

=============================================================================
